---- MODULE Spec2Model ----
(***************************************************************************)
(* Model of the session, rate-governance and audit core of agents-protocol *)
(* (sdk/src/session.ts, sdk/src/rate-limiter.ts, sdk/src/audit.ts) and of  *)
(* the routes that dispatch to it (sdk/src/server.ts).                     *)
(*                                                                         *)
(* JavaScript runs every synchronous function to completion, so each       *)
(* synchronous method is one action.  An async method is split at its      *)
(* awaits.  The clock `now` is Date.now(); one method call reads one value *)
(* of it.                                                                  *)
(***************************************************************************)
EXTENDS Integers, Sequences, FiniteSets, TLC

(***************************************************************************)
(* Bounds of the model.                                                    *)
(***************************************************************************)
MaxTime == 2
MaxTokens == 2
MaxCap == 1
MaxTtl == 1
MaxLimit == 2
MaxLog == 3
MaxCalls == 2
MaxAuditTime == 1
MaxRuns == 1
MaxQueueCalls == 3
MaxLifeRuns == 2
MaxLifeCalls == 1
MaxLifeTime == 2
MaxIndepRuns == 2
MaxIndepCalls == 3
MaxResetLog == 4
MaxPurgeRuns == 2
MaxPurgeCalls == 2

(***************************************************************************)
(* Program constants, in the model's time unit.  Time is counted in units  *)
(* in which the factor 1000 of `ttl * 1000` is 1 and the rate window of    *)
(* 60_000 ms is 2 units long.                                              *)
(***************************************************************************)
MsPerSecond == 1
WindowMs == 2

Ips == {"ipA", "ipB"}
NoIp == "none"
Keys == Ips
ATokens == {"tokA", "tokB"}
\* tokens of which one is the other followed by ':' and more text
PrefixTokens == {"tokA", "tokA:x"}
Caps == {"search", "checkout"}
AllowLists == {{"search", "cart.add"}, {"search", "checkout"}}

VARIABLES
    now,            \* Date.now()
    \* ---- SessionManager (session.ts)
    ttl,            \* this.ttl
    maxSessions,    \* this.maxSessions
    sessions,       \* this.sessions : token -> SessionData
    sessionsByIp,   \* this.sessionsByIp : ip -> Set<token>
    nextToken,      \* the next value randomBytes(32) yields (fresh each time)
    sLast,          \* the last SessionManager call and its outcome
    issuedAt,       \* history: token -> time its createSession ran
    gone,           \* history: tokens ended or removed on expiry
    \* ---- RateLimiter (rate-limiter.ts)
    windows,        \* this.windows : key -> timestamps
    rLast,          \* the last checkRateLimit call and its result
    callLog,        \* history: key -> sequence of calls and results
    \* ---- AuditManager (audit.ts)
    aTtl,           \* this.ttlSeconds
    aSessions,      \* this.sessions : token -> SessionEntry
    runtimes,       \* the Runtime objects created so far, by run id
    artifacts,      \* this.artifacts : token -> ArtifactEntry
    pendingHandlers,\* this.pendingHandlers : <<token, capability>> -> queue
    calls,          \* the callCapability invocations, in submission order
    aLast,          \* the last AuditManager.endSession call and its return value
    \* ---- AgentDoor (server.ts)
    requests        \* the requests the routes have handled, with their outcome

svars == <<ttl, maxSessions, sessions, sessionsByIp, nextToken, sLast, issuedAt, gone>>
rvars == <<windows, rLast, callLog>>
avars == <<aTtl, aSessions, runtimes, artifacts, pendingHandlers, calls, aLast>>
dvars == <<requests>>
vars == <<now, svars, rvars, avars, dvars>>

(***************************************************************************)
(* Generic helpers.                                                        *)
(***************************************************************************)
MapSet(f, k, v) == [x \in (DOMAIN f) \cup {k} |-> IF x = k THEN v ELSE f[x]]
MapDelete(f, k) == [x \in (DOMAIN f) \ {k} |-> f[x]]

\* timestamps.filter(t => t > windowStart), rate-limiter.ts:24 and 46
RECURSIVE SeqFilterGtAlt(_, _)
SeqFilterGtAlt(s, bound) ==
    IF s = <<>> THEN <<>>
    ELSE IF Head(s) >= bound
         THEN <<Head(s)>> \o SeqFilterGtAlt(Tail(s), bound)
         ELSE SeqFilterGtAlt(Tail(s), bound)

RECURSIVE SeqFilterGt(_, _)
SeqFilterGt(s, bound) ==
    IF s = <<>> THEN <<>>
    ELSE IF Head(s) > bound
         THEN <<Head(s)>> \o SeqFilterGt(Tail(s), bound)
         ELSE SeqFilterGt(Tail(s), bound)

(***************************************************************************)
(* The clock.                                                              *)
(***************************************************************************)
Tick ==
    /\ now < MaxTime
    /\ now' = now + 1

(***************************************************************************)
(* SessionManager                                                          *)
(***************************************************************************)
SInit ==
    /\ ttl \in 0..MaxTtl
    /\ maxSessions \in 0..MaxCap
    /\ sessions = << >>
    /\ sessionsByIp = << >>
    /\ nextToken = 1
    /\ sLast = [op |-> "init", token |-> 0, ip |-> NoIp, result |-> "none", at |-> 0]
    /\ issuedAt = << >>
    /\ gone = {}

\* session.ts:24-29, the max_sessions guard of createSession
CreateThrowsAlt(byIp, ip) ==
    /\ maxSessions > 0
    /\ ip # NoIp
    /\ ip \in DOMAIN byIp
    /\ Cardinality(byIp[ip]) > maxSessions

CreateThrows(byIp, ip) ==
    /\ maxSessions > 0
    /\ ip # NoIp
    /\ ip \in DOMAIN byIp
    /\ Cardinality(byIp[ip]) >= maxSessions

\* session.ts:45-52, "Track session by IP"
TrackByIp(byIp, ip, token) ==
    IF ip = NoIp THEN byIp
    ELSE MapSet(byIp, ip, (IF ip \in DOMAIN byIp THEN byIp[ip] ELSE {}) \cup {token})

\* session.ts:69-75 and 83-89, removal of a token from the IP index
UntrackByIpAlt(byIp, ip, token) == byIp

UntrackByIp(byIp, ip, token) ==
    IF ip = NoIp \/ ip \notin DOMAIN byIp THEN byIp
    ELSE IF byIp[ip] \ {token} = {} THEN MapDelete(byIp, ip)
         ELSE MapSet(byIp, ip, byIp[ip] \ {token})

\* session.ts:31, randomBytes(32): a value that was never drawn before; prev
\* is the value drawn last
randomBytesAlt(prev) == IF prev > 1 THEN prev - 1 ELSE prev

randomBytes(prev) == prev + 1

createSession(ip) ==
    /\ nextToken <= MaxTokens
    /\ IF CreateThrows(sessionsByIp, ip)
       THEN /\ sLast' = [op |-> "createSession", token |-> 0, ip |-> ip,
                         result |-> "MaxSessionsError", at |-> now]
            /\ UNCHANGED <<sessions, sessionsByIp, nextToken, issuedAt>>
       ELSE /\ sessions' = MapSet(sessions, nextToken,
                                  [sessionToken |-> nextToken,
                                   expiresAt |-> now + ttl * MsPerSecond,
                                   createdAt |-> now,
                                   ip |-> ip])
            /\ sessionsByIp' = TrackByIp(sessionsByIp, ip, nextToken)
            /\ issuedAt' = MapSet(issuedAt, nextToken, now)
            /\ nextToken' = randomBytes(nextToken)
            /\ sLast' = [op |-> "createSession", token |-> nextToken, ip |-> ip,
                         result |-> "session", at |-> now]
    /\ UNCHANGED <<ttl, maxSessions, gone>>

\* session.ts:60, the expiry test of validateSession
IsExpiredAlt(session, t) == t > session.expiresAt

IsExpired(session, t) == t >= session.expiresAt

validateSession(token) ==
    /\ IF token \notin DOMAIN sessions
       THEN /\ sLast' = [op |-> "validateSession", token |-> token, ip |-> NoIp,
                         result |-> "null", at |-> now]
            /\ UNCHANGED <<sessions, gone>>
       ELSE IF IsExpired(sessions[token], now)
       THEN /\ sessions' = MapDelete(sessions, token)
            /\ gone' = gone \cup {token}
            /\ sLast' = [op |-> "validateSession", token |-> token,
                         ip |-> sessions[token].ip, result |-> "null", at |-> now]
       ELSE /\ sLast' = [op |-> "validateSession", token |-> token,
                         ip |-> sessions[token].ip, result |-> "session", at |-> now]
            /\ UNCHANGED <<sessions, gone>>
    /\ UNCHANGED <<ttl, maxSessions, sessionsByIp, nextToken, issuedAt>>

endSession(token) ==
    /\ sessionsByIp' =
          IF token \in DOMAIN sessions
          THEN UntrackByIp(sessionsByIp, sessions[token].ip, token)
          ELSE sessionsByIp
    /\ sessions' = MapDelete(sessions, token)
    /\ gone' = IF token \in DOMAIN sessions THEN gone \cup {token} ELSE gone
    /\ sLast' = [op |-> "endSession", token |-> token,
                 ip |-> IF token \in DOMAIN sessions THEN sessions[token].ip ELSE NoIp,
                 result |-> "void", at |-> now]
    /\ UNCHANGED <<ttl, maxSessions, nextToken, issuedAt>>

\* session.ts:79-93; the loop removes every session with now > expiresAt
RECURSIVE UntrackAll(_, _)
UntrackAll(byIp, toks) ==
    IF toks = {} THEN byIp
    ELSE LET t == CHOOSE x \in toks : TRUE
         IN UntrackAll(UntrackByIp(byIp, sessions[t].ip, t), toks \ {t})

cleanup ==
    LET stale == {t \in DOMAIN sessions : now > sessions[t].expiresAt}
    IN /\ sessions' = [t \in (DOMAIN sessions) \ stale |-> sessions[t]]
       /\ sessionsByIp' = UntrackAll(sessionsByIp, stale)
       /\ gone' = gone \cup stale
       /\ sLast' = [op |-> "cleanup", token |-> 0, ip |-> NoIp, result |-> "void", at |-> now]
       /\ UNCHANGED <<ttl, maxSessions, nextToken, issuedAt>>

SNext ==
    \/ \E ip \in Ips \cup {NoIp} : createSession(ip) /\ UNCHANGED <<now, rvars, avars, dvars>>
    \/ \E token \in 1..MaxTokens : validateSession(token) /\ UNCHANGED <<now, rvars, avars, dvars>>
    \/ \E token \in 1..MaxTokens : endSession(token) /\ UNCHANGED <<now, rvars, avars, dvars>>
    \/ cleanup /\ UNCHANGED <<now, rvars, avars, dvars>>
    \/ Tick /\ UNCHANGED <<svars, rvars, avars, dvars>>


(***************************************************************************)
(* Properties of SessionManager                                            *)
(***************************************************************************)
\* the live sessions of one origin
LiveIn(sess, ip) == {t \in DOMAIN sess : sess[t].ip = ip}
LiveCount(ip) == Cardinality(LiveIn(sessions, ip))
\* the origin index entry, the empty set when the key is absent
IndexOf(byIp, ip) == IF ip \in DOMAIN byIp THEN byIp[ip] ELSE {}
\* the step is a call of the method op
SCall(op) == sLast' # sLast /\ sLast'.op = op

\* C4: with maxSessions = M > 0 at most M live sessions share one origin in
\* every reachable state, and a createSession for an origin that already
\* holds M live sessions throws MaxSessionsError and adds no session.
C4_MaxSessionsPerOrigin ==
    [][ /\ maxSessions > 0 => \A ip \in Ips : Cardinality(LiveIn(sessions', ip)) <= maxSessions
        /\ ( /\ SCall("createSession")
             /\ maxSessions > 0
             /\ sLast'.ip # NoIp
             /\ LiveCount(sLast'.ip) >= maxSessions )
           => /\ sLast'.result = "MaxSessionsError"
              /\ sessions' = sessions ]_vars

C4_Witness ==
    /\ maxSessions > 0
    /\ sLast.op = "createSession"
    /\ sLast.result = "MaxSessionsError"
    /\ LiveCount(sLast.ip) = maxSessions

\* C6: validateSession(token) returns the session exactly when the token was
\* issued, has not been ended or removed, and now < createdAt + TTL; no step
\* changes the expiresAt of a session, which stays createdAt + TTL, so with
\* TTL = 0 the first validation already fails.
C6_ValidateIffLiveAndUnexpired ==
    [][ /\ SCall("validateSession") =>
              ( sLast'.result = "session"
                <=> /\ sLast'.token \in DOMAIN issuedAt
                    /\ sLast'.token \notin gone
                    /\ now < issuedAt[sLast'.token] + ttl * MsPerSecond )
        /\ \A t \in DOMAIN sessions' :
              /\ sessions'[t].expiresAt = issuedAt'[t] + ttl * MsPerSecond
              /\ t \in DOMAIN sessions => sessions'[t].expiresAt = sessions[t].expiresAt
      ]_vars

C6_Witness ==
    /\ ttl = 0
    /\ sLast.op = "validateSession"
    /\ sLast.result = "null"
    /\ sLast.token \in DOMAIN issuedAt
    /\ issuedAt[sLast.token] = now
    /\ sLast.ip # NoIp

\* C8: createSession(origin) throws MaxSessionsError exactly when
\* maxSessions > 0, an origin is given and the origin's live sessions number
\* maxSessions; otherwise it allocates a session and registers it under the
\* origin.
C8_CreateThrowsIffOriginFull ==
    [][ SCall("createSession") =>
          /\ sLast'.result = "MaxSessionsError"
             <=> /\ maxSessions > 0
                 /\ sLast'.ip # NoIp
                 /\ LiveCount(sLast'.ip) = maxSessions
          /\ sLast'.result = "session" =>
                /\ sLast'.token \in DOMAIN sessions'
                /\ sLast'.token \notin DOMAIN sessions
                /\ sLast'.ip # NoIp => sLast'.token \in IndexOf(sessionsByIp', sLast'.ip)
      ]_vars

\* C9: when validateSession(token) finds the session expired, the token is
\* afterwards neither in the live-session map nor in the origin index.
C9_ExpiredValidateClearsIndex ==
    ( /\ sLast.op = "validateSession"
      /\ sLast.result = "null"
      /\ sLast.token \in gone )
    => /\ sLast.token \notin DOMAIN sessions
       /\ \A ip \in DOMAIN sessionsByIp : sLast.token \notin sessionsByIp[ip]

\* C10: with maxSessions = M > 0 and an origin holding M live sessions,
\* endSession on one of them frees exactly one slot: the next createSession
\* for the origin is accepted and the one after it throws.
C10_EndFreesOneSlot ==
    [][ ( /\ SCall("endSession")
          /\ maxSessions > 0
          /\ sLast'.token \in DOMAIN sessions
          /\ sLast'.ip # NoIp
          /\ LiveCount(sLast'.ip) = maxSessions )
        => /\ Cardinality(LiveIn(sessions', sLast'.ip)) = maxSessions - 1
           /\ ~CreateThrows(sessionsByIp', sLast'.ip)
           /\ CreateThrows(TrackByIp(sessionsByIp', sLast'.ip, nextToken), sLast'.ip)
      ]_vars

C10_Witness ==
    /\ maxSessions > 0
    /\ sLast.op = "endSession"
    /\ sLast.ip # NoIp
    /\ sLast.token \in gone
    /\ LiveCount(sLast.ip) = maxSessions - 1
    /\ Cardinality(IndexOf(sessionsByIp, sLast.ip)) = maxSessions - 1

\* the token would validate in the state after the step
ValidatesNext(token) ==
    /\ token \in DOMAIN sessions'
    /\ ~IsExpired(sessions'[token], now')

\* the three parts of C11: a created token was never issued before; it
\* validates right after its creation; a destroyed token stays invalid
TokenIsNew == SCall("createSession") /\ sLast'.result = "session"
                 => sLast'.token \notin DOMAIN issuedAt
TokenValidatesAtOnce == SCall("createSession") /\ sLast'.result = "session"
                           => ValidatesNext(sLast'.token)
DestroyedStaysInvalid ==
    /\ gone \subseteq gone'
    /\ \A t \in gone' : t \notin DOMAIN sessions'
    /\ SCall("validateSession") /\ sLast'.token \in gone' => sLast'.result = "null"

\* C11 as stated: tokens are pairwise distinct over all sessions ever
\* created and each validates immediately after creation; a token destroyed
\* by endSession, by lazy expiry or by the sweep is invalid in every later
\* state, whatever createSession calls follow.
C11_TokensDistinctAndNeverRevived ==
    [][ TokenIsNew /\ TokenValidatesAtOnce /\ DestroyedStaysInvalid ]_vars

\* C11 amended: the same, with "validates immediately after creation"
\* restricted to managers constructed with TTL > 0.
C11_TokensDistinctAndNeverRevivedTtlPositive ==
    [][ /\ TokenIsNew
        /\ ttl > 0 => TokenValidatesAtOnce
        /\ DestroyedStaysInvalid ]_vars

C11_Witness ==
    /\ ttl > 0
    /\ gone # {}
    /\ sLast.op = "createSession"
    /\ sLast.result = "session"
    /\ sLast.token \notin gone
    /\ sLast.token \in DOMAIN sessions
    /\ ~IsExpired(sessions[sLast.token], now)

\* C27: SessionManager.endSession(token) is idempotent and total: in any
\* state, after it returns the token is in neither the live-session map nor
\* the origin index; a second call, or a call with a token that was never
\* issued, changes nothing.
C27_EndSessionIdempotent ==
    [][ SCall("endSession") =>
          /\ sLast'.token \notin DOMAIN sessions'
          /\ \A ip \in DOMAIN sessionsByIp' : sLast'.token \notin sessionsByIp'[ip]
          /\ (sLast'.token \notin DOMAIN sessions \/ sLast'.token \notin DOMAIN issuedAt)
                => UNCHANGED <<sessions, sessionsByIp>> ]_vars

\* validateSession would reject the session at time t as expired
RejectedAsExpired(session, t) == t >= session.expiresAt
\* no expired session is left in the live map or in the origin index
NoExpiredLeft(sess, byIp, t) ==
    /\ \A tok \in DOMAIN sess : ~RejectedAsExpired(sess[tok], t)
    /\ \A ip \in DOMAIN byIp : \A tok \in byIp[ip] :
          tok \in DOMAIN sess /\ ~RejectedAsExpired(sess[tok], t)
\* every session that is not expired is where it was
UnexpiredKept ==
    \A tok \in DOMAIN sessions :
        ~RejectedAsExpired(sessions[tok], now) =>
            /\ tok \in DOMAIN sessions' /\ sessions'[tok] = sessions[tok]
            /\ \A ip \in DOMAIN sessionsByIp :
                  tok \in sessionsByIp[ip] => tok \in IndexOf(sessionsByIp', ip)

\* C39: the sweep removes exactly the sessions validateSession would reject
\* as expired at that instant: after a sweep at time now no session with
\* now >= expiresAt remains in the live map or in the origin index, and no
\* session with now < expiresAt has been removed.
C39_SweepRemovesExactlyExpired ==
    [][ SCall("cleanup") =>
          /\ NoExpiredLeft(sessions', sessionsByIp', now)
          /\ UnexpiredKept ]_vars

(***************************************************************************)
(* RateLimiter                                                             *)
(***************************************************************************)
RInit ==
    /\ windows = << >>
    /\ rLast = [key |-> "none", limit |-> 0, at |-> 0, allowed |-> FALSE,
                remaining |-> 0, resetAt |-> 0]
    /\ callLog = [k \in Keys |-> <<>>]

\* the number of calls made so far, over all keys (bounded by MaxLog)
RECURSIVE SumLen(_, _)
SumLen(f, ks) ==
    IF ks = {} THEN 0
    ELSE LET k == CHOOSE x \in ks : TRUE IN Len(f[k]) + SumLen(f, ks \ {k})
LogTotal == SumLen(callLog, Keys)

\* rate-limiter.ts:26, the admission test on the pruned window
OverLimitAlt(timestamps, limit) == Len(timestamps) > limit

OverLimit(timestamps, limit) == Len(timestamps) >= limit

\* rate-limiter.ts:38, remaining after the push of now
RemainingAlt(limit, timestamps) == limit - Len(timestamps) + 1

Remaining(limit, timestamps) == limit - Len(timestamps)

\* entry.timestamps[0] of an empty array is undefined; undefined + windowMs is NaN
NaN == -1

\* rate-limiter.ts:27-31, oldestInWindow + this.windowMs
DeniedResetAtAlt(timestamps) == timestamps[Len(timestamps)] + WindowMs

DeniedResetAt(timestamps) == timestamps[1] + WindowMs

\* rate-limiter.ts:26-35, the window a call leaves: a denied call returns
\* before the push
WindowAfterAlt(timestamps, allowed, t) == Append(timestamps, t)

WindowAfter(timestamps, allowed, t) ==
    IF allowed THEN Append(timestamps, t) ELSE timestamps

checkRateLimit(key, limit) ==
    LET windowStart == now - WindowMs
        old == IF key \in DOMAIN windows THEN windows[key] ELSE <<>>
        pruned == SeqFilterGt(old, windowStart)
        result ==
            IF OverLimit(pruned, limit)
            THEN [allowed |-> FALSE, remaining |-> 0,
                  resetAt |-> IF pruned = <<>> THEN NaN ELSE DeniedResetAt(pruned)]
            ELSE [allowed |-> TRUE, remaining |-> Remaining(limit, Append(pruned, now)),
                  resetAt |-> now + WindowMs]
    IN /\ windows' = MapSet(windows, key, WindowAfter(pruned, result.allowed, now))
       /\ rLast' = [key |-> key, limit |-> limit, at |-> now,
                    allowed |-> result.allowed, remaining |-> result.remaining,
                    resetAt |-> result.resetAt]
       /\ callLog' = [callLog EXCEPT ![key] =
                         Append(@, [at |-> now, limit |-> limit,
                                    allowed |-> result.allowed,
                                    remaining |-> result.remaining,
                                    resetAt |-> result.resetAt])]

\* rate-limiter.ts:47, entry.timestamps.length === 0 after the filter
EntirelyStaleAlt(timestamps, windowStart) ==
    timestamps = <<>> \/ timestamps[1] <= windowStart

EntirelyStale(timestamps, windowStart) == SeqFilterGt(timestamps, windowStart) = <<>>

\* rate-limiter.ts:43-51
rateCleanup ==
    LET windowStart == now - WindowMs
        kept == {k \in DOMAIN windows : ~EntirelyStale(windows[k], windowStart)}
    IN /\ windows' = [k \in kept |-> SeqFilterGt(windows[k], windowStart)]
       /\ rLast' = [rLast EXCEPT !.key = "none"]
       /\ UNCHANGED callLog

RNext ==
    \/ \E key \in Keys, limit \in 0..MaxLimit :
          /\ LogTotal < MaxLog
          /\ checkRateLimit(key, limit) /\ UNCHANGED <<now, svars, avars, dvars>>
    \/ rateCleanup /\ UNCHANGED <<now, svars, avars, dvars>>
    \/ Tick /\ UNCHANGED <<svars, rvars, avars, dvars>>


(***************************************************************************)
(* Properties of RateLimiter                                               *)
(***************************************************************************)
\* the admitted calls on key whose timestamp lies in the window (t - WindowMs, t]
AdmittedIn(key, t) ==
    {i \in 1..Len(callLog[key]) :
        /\ callLog[key][i].allowed
        /\ callLog[key][i].at > t - WindowMs
        /\ callLog[key][i].at <= t}

LimitsOf(key) == {callLog[key][i].limit : i \in 1..Len(callLog[key])}

\* C5: for a key always called with the same limit L, the admitted calls
\* whose timestamps lie in the trailing window ending at any time t never
\* number more than L.
C5_WindowNeverExceedsLimit ==
    \A key \in Keys : \A L \in 0..(MaxLimit + 1) :
        LimitsOf(key) = {L} =>
            \A t \in 0..(MaxTime + 1) : Cardinality(AdmittedIn(key, t)) <= L

C5_Witness ==
    \E key \in Keys :
        /\ LimitsOf(key) = {MaxLimit}
        /\ Cardinality(AdmittedIn(key, now)) = MaxLimit
        /\ rLast.key = key
        /\ ~rLast.allowed
        /\ windows[key][1] < now

\* C7: on a key with no earlier admitted call, L + 1 calls with limit L >= 1
\* made within one window are admitted L times, with remaining L-1, ..., 0,
\* and the (L+1)-th is denied with remaining 0.
C7_ExactlyLimitAdmitted ==
    \A key \in Keys : \A L \in 1..(MaxLimit + 1) : \A s \in 1..Len(callLog[key]) :
        LET log == callLog[key] IN
        ( /\ s + L <= Len(log)
          /\ \A i \in 1..(s - 1) : ~log[i].allowed
          /\ \A i \in s..(s + L) : log[i].limit = L
          /\ log[s + L].at - log[s].at < WindowMs )
        => /\ \A i \in s..(s + L - 1) :
                 log[i].allowed /\ log[i].remaining = L - 1 - (i - s)
           /\ ~log[s + L].allowed
           /\ log[s + L].remaining = 0

C7_Witness ==
    \E key \in Keys :
        /\ Len(callLog[key]) = 3
        /\ \A i \in 1..3 : callLog[key][i].limit = 2
        /\ callLog[key][3].at - callLog[key][1].at < WindowMs
        /\ callLog[key][2].remaining = 0
        /\ ~callLog[key][3].allowed

\* the timestamps of the admitted calls of a log that are later than bound
RECURSIVE Surviving(_, _)
Surviving(log, bound) ==
    IF log = <<>> THEN <<>>
    ELSE IF Head(log).allowed /\ Head(log).at > bound
         THEN <<Head(log).at>> \o Surviving(Tail(log), bound)
         ELSE Surviving(Tail(log), bound)
\* the step is a checkRateLimit call on key
RateCallOn(key) == Len(callLog'[key]) = Len(callLog[key]) + 1

\* C20: for every call and every limit >= 0, checkRateLimit returns the
\* reference result on the pruned window: with count >= limit it denies with
\* remaining 0 and resetAt = oldest surviving timestamp + windowMs, a defined
\* time later than now; otherwise it admits with remaining =
\* max(0, limit - count after appending now) and resetAt = now + windowMs.
C20_ReferenceResult ==
    [][ \A key \in Keys : RateCallOn(key) =>
          LET surv == Surviving(callLog[key], now - WindowMs)
              after == Len(surv) + 1
          IN /\ rLast'.key = key
             /\ IF Len(surv) >= rLast'.limit
                THEN /\ ~rLast'.allowed
                     /\ rLast'.remaining = 0
                     /\ surv # <<>>
                     /\ rLast'.resetAt = surv[1] + WindowMs
                     /\ rLast'.resetAt > now
                ELSE /\ rLast'.allowed
                     /\ rLast'.remaining = IF rLast'.limit - after > 0
                                           THEN rLast'.limit - after ELSE 0
                     /\ rLast'.resetAt = now + WindowMs
      ]_vars

\* the window of key before the call, and what the call left of it (the
\* window after the call without the timestamp the call appended)
WindowOf(w, key) == IF key \in DOMAIN w THEN w[key] ELSE <<>>
LeftOfWindow(key) ==
    IF rLast'.allowed
    THEN SubSeq(windows'[key], 1, Len(windows'[key]) - 1)
    ELSE windows'[key]
IsOlder(t) == t < now - WindowMs
IsOlderOrEqual(t) == t <= now - WindowMs
NotOlder(t) == ~IsOlder(t)
NotOlderOrEqual(t) == ~IsOlderOrEqual(t)

\* C36: pruning in checkRateLimit discards exactly the timestamps older than
\* now - windowMs: a timestamp t < now - windowMs is dropped, and a timestamp
\* t >= now - windowMs (also one exactly windowMs old) is kept and counted
\* against the limit.
C36_PruneKeepsExactlyWindowOld ==
    [][ \A key \in Keys : RateCallOn(key) =>
          LET kept == SelectSeq(WindowOf(windows, key), NotOlder)
          IN /\ LeftOfWindow(key) = kept
             /\ rLast'.allowed = (Len(kept) < rLast'.limit) ]_vars

\* C36, amended: pruning discards the timestamps that are windowMs old or
\* older: a timestamp t <= now - windowMs is dropped, and a timestamp
\* t > now - windowMs is kept and counted against the limit.
C36_PruneDropsWindowOld ==
    [][ \A key \in Keys : RateCallOn(key) =>
          LET kept == SelectSeq(WindowOf(windows, key), NotOlderOrEqual)
          IN /\ LeftOfWindow(key) = kept
             /\ rLast'.allowed = (Len(kept) < rLast'.limit) ]_vars

\* a call with limit 1 was admitted exactly windowMs after the admitted
\* call that filled the window, whose timestamp it dropped
C36_Witness ==
    \E key \in Keys :
        /\ Len(callLog[key]) = 2
        /\ callLog[key][1].allowed /\ callLog[key][1].limit = 1
        /\ callLog[key][2].allowed /\ callLog[key][2].limit = 1
        /\ callLog[key][2].at = callLog[key][1].at + WindowMs
        /\ windows[key] = <<callLog[key][2].at>>

\* call i on key was denied with limit L >= 1, and the calls from i to j all
\* came with limit L
DeniedThenSameLimit(key, i, j) ==
    /\ i < j
    /\ ~callLog[key][i].allowed
    /\ callLog[key][i].limit >= 1
    /\ \A k \in i..j : callLog[key][k].limit = callLog[key][i].limit
\* the resetAt of the denied call i decides call j: before it j is denied,
\* and the first call at or after it is admitted
ResetAtDecides(key, i, j) ==
    LET log == callLog[key]
        r == log[i].resetAt
    IN /\ log[j].at < r => ~log[j].allowed
       /\ ( /\ log[j].at >= r
            /\ \A k \in (i + 1)..(j - 1) : log[k].at < r ) => log[j].allowed

\* C37: the resetAt of a denial is exact: after checkRateLimit(key, L) with
\* L >= 1 is denied with resetAt = r, every call on that key at a time
\* before r is denied and the first call at or after r is admitted.
C37_ResetAtExact ==
    \A key \in Keys : \A i \in 1..Len(callLog[key]) : \A j \in 1..Len(callLog[key]) :
        DeniedThenSameLimit(key, i, j) => ResetAtDecides(key, i, j)

\* C37, amended: on a key that is always called with the same limit L >= 1,
\* after a denial with resetAt = r every call at a time before r is denied
\* and the first call at or after r is admitted.
C37_ResetAtExactConstantLimit ==
    \A key \in Keys : \A i \in 1..Len(callLog[key]) : \A j \in 1..Len(callLog[key]) :
        ( /\ DeniedThenSameLimit(key, i, j)
          /\ Cardinality(LimitsOf(key)) = 1 ) => ResetAtDecides(key, i, j)

\* a key was denied, denied again before resetAt and admitted at resetAt
C37_Witness ==
    \E key \in Keys :
        LET log == callLog[key] IN
        /\ Len(log) = 4
        /\ LimitsOf(key) = {1}
        /\ ~log[2].allowed /\ ~log[3].allowed /\ log[4].allowed
        /\ log[3].at < log[2].resetAt
        /\ log[4].at = log[2].resetAt

\* C38: checkRateLimit(key, ...) changes only that key's window: the
\* windows of the other keys are as before, the result depends on the
\* earlier calls of that key alone, and a denied call appends nothing to the
\* window of its key (it only prunes), so it does not postpone the time at
\* which the key is admitted again.
C38_OnlyOwnWindowChanges ==
    [][ \A key \in Keys : RateCallOn(key) =>
          /\ \A other \in Keys \ {key} :
                /\ (other \in DOMAIN windows') = (other \in DOMAIN windows)
                /\ WindowOf(windows', other) = WindowOf(windows, other)
          /\ rLast'.allowed
                = (Len(Surviving(callLog[key], now - WindowMs)) < rLast'.limit)
          /\ ~rLast'.allowed =>
                windows'[key] = SelectSeq(WindowOf(windows, key), NotOlderOrEqual) ]_vars

\* a call was denied on a key whose window is full while another key has a
\* window of its own
C38_Witness ==
    \E key \in Keys : \E other \in Keys \ {key} :
        /\ rLast.key = key /\ ~rLast.allowed /\ rLast.limit >= 1
        /\ Len(windows[key]) = rLast.limit
        /\ other \in DOMAIN windows /\ windows[other] # <<>>

\* the step is a sweep of the limiter
RateSweepStep == rLast'.key = "none" /\ callLog' = callLog /\ now' = now
\* what a limiter that is never swept returns for a call on a key with the
\* given history of calls
Unswept(log, t, limit) ==
    LET surv == Surviving(log, t - WindowMs)
    IN IF Len(surv) >= limit
       THEN [allowed |-> FALSE, remaining |-> 0,
             resetAt |-> IF surv = <<>> THEN NaN ELSE surv[1] + WindowMs]
       ELSE [allowed |-> TRUE, remaining |-> limit - (Len(surv) + 1),
             resetAt |-> t + WindowMs]

\* C40: the sweep evicts exactly the keys whose every timestamp lies outside
\* the trailing window (now - windowMs, now], and it is transparent: the
\* allowed, remaining and resetAt of every call are those of a limiter that
\* is never swept, wherever sweeps ran in between.
C40_SweepExactAndTransparent ==
    [][ /\ RateSweepStep =>
             /\ DOMAIN windows' \subseteq DOMAIN windows
             /\ \A key \in DOMAIN windows :
                   (key \notin DOMAIN windows')
                      <=> \A i \in 1..Len(windows[key]) : windows[key][i] <= now - WindowMs
        /\ \A key \in Keys : RateCallOn(key) =>
              [allowed |-> rLast'.allowed, remaining |-> rLast'.remaining,
               resetAt |-> rLast'.resetAt] = Unswept(callLog[key], now, rLast'.limit)
      ]_vars

\* a sweep has evicted a key that was admitted earlier, and a call has been
\* answered on another key whose earlier timestamp had left the window
C40_Witness ==
    \E key \in Keys : \E other \in Keys \ {key} :
        /\ Len(callLog[key]) = 2
        /\ callLog[key][1].allowed /\ callLog[key][1].at <= now - WindowMs
        /\ callLog[key][2].at = now
        /\ rLast.key = key
        /\ other \notin DOMAIN windows
        /\ callLog[other] # <<>> /\ callLog[other][1].allowed

(***************************************************************************)
(* The RER runtime (@rer/runtime), of which the repository holds only the  *)
(* declarations (rer-stubs.d.ts).  One Runtime per audit session: it       *)
(* checks the envelope's allow-list, appends hash-linked events, and runs  *)
(* the registered executor of a tool for one call at a time.               *)
(***************************************************************************)
NullHash == << >>

\* the digest of an event: a function of its content and its parent's digest
HashEvent(type, tool, data, parent) == <<type, tool, data, parent>>

AppendEventAlt(events, type, tool, data) ==
    Append(events, [event_type |-> type, tool |-> tool, data |-> data,
                    parent_event_hash |-> NullHash,
                    event_hash |-> HashEvent(type, tool, data, NullHash)])

AppendEvent(events, type, tool, data) ==
    LET parent == IF events = <<>> THEN NullHash
                  ELSE events[Len(events)].event_hash
    IN Append(events, [event_type |-> type, tool |-> tool, data |-> data,
                       parent_event_hash |-> parent,
                       event_hash |-> HashEvent(type, tool, data, parent)])

\* the policy check of callTool: the tool is on the envelope's allow-list
PolicyAllowsAlt(rt, tool) == TRUE

PolicyAllows(rt, tool) == tool \in rt.allow

\* a runtime logs only until it has ended
LogAlt(rt, type, tool, data) == [rt EXCEPT !.events = AppendEvent(@, type, tool, data)]

Log(rt, type, tool, data) ==
    IF rt.ended THEN rt
    ELSE [rt EXCEPT !.events = AppendEvent(@, type, tool, data)]

\* new Runtime({envelope, ...}) followed by runtime.start()
RuntimeStart(envelope) ==
    Log([run_id |-> envelope.run_id, principal |-> envelope.principal,
         allow |-> envelope.allow, events |-> <<>>, ended |-> FALSE],
        "RunStarted", "none", <<"run", envelope.run_id>>)

\* runtime.end(status, message)
RuntimeEnd(rt) ==
    [Log(rt, "RunEnded", "none", <<"completed", 0>>) EXCEPT !.ended = TRUE]

\* runtime.buildArtifact()
BuildArtifact(rid, rt) ==
    [run_id |-> rid, principal |-> rt.principal, allow |-> rt.allow, events |-> rt.events,
     runtime_signature |-> <<"signed", rt.events>>]

(***************************************************************************)
(* AuditManager                                                            *)
(***************************************************************************)
\* the null that endSession and getArtifact return
NoArtifact == << >>

AInit ==
    /\ aTtl \in 1..MaxTtl
    /\ aSessions = << >>
    /\ runtimes = << >>
    /\ artifacts = << >>
    /\ pendingHandlers = << >>
    /\ calls = << >>
    /\ aLast = [op |-> "init", token |-> "none", run |-> 0, built |-> TRUE,
                result |-> NoArtifact]

\* a token as text: its pieces between the ':' characters.  Capability names
\* and the tokens SessionManager issues hold no ':'.
Text(token) == IF token = "tokA:x" THEN <<"tokA", "x">> ELSE <<token>>

\* audit.ts:108 and audit.ts:151, `${sessionToken}:${name}`: the pieces of
\* the key between its ':' characters
HandlerKeyAlt(sessionToken, name) == Text(sessionToken) \o <<"any">>

HandlerKey(sessionToken, name) == Text(sessionToken) \o <<name>>

\* audit.ts:265, key.startsWith(sessionToken + ':')
StartsWith(key, prefix) ==
    /\ Len(key) > Len(prefix)
    /\ SubSeq(key, 1, Len(prefix)) = prefix

\* audit.ts:263-269
clearPendingHandlers(pending, token) ==
    [k \in {x \in DOMAIN pending : ~StartsWith(x, Text(token))} |-> pending[k]]

\* audit.ts:152-157, queue.push(handler)
PushHandlerAlt(pending, key, h) == pending

PushHandler(pending, key, h) ==
    MapSet(pending, key, (IF key \in DOMAIN pending THEN pending[key] ELSE <<>>) \o <<h>>)

\* audit.ts:109-110, queue?.shift() in the executor
ShiftHandler(pending, key) ==
    IF key \in DOMAIN pending /\ pending[key] # <<>>
    THEN MapSet(pending, key, Tail(pending[key]))
    ELSE pending

\* audit.ts:167-168, queue?.shift() in the catch block of callCapability
DiscardStaleAlt(pending, key) == pending

DiscardStale(pending, key) ==
    IF key \in DOMAIN pending /\ pending[key] # <<>>
    THEN MapSet(pending, key, Tail(pending[key]))
    ELSE pending

QueueHead(pending, key) ==
    IF key \in DOMAIN pending /\ pending[key] # <<>> THEN Head(pending[key]) ELSE 0

\* audit.ts:176-177, endSession finds no entry: `return null`
EndAbsentAlt(st, token) == [st EXCEPT !.artifacts = MapDelete(@, token)]

EndAbsent(st, token) == st

\* audit.ts:188-195, buildArtifact() throws: nothing is stored for the token
BuildFailedAlt(arts, token, rid, rt) ==
    MapSet(arts, token, [artifact |-> [BuildArtifact(rid, rt) EXCEPT !.events = << >>],
                         expiresAt |-> now + aTtl * MsPerSecond])

BuildFailed(arts, token, rid, rt) == arts

\* audit.ts:175-202, on the manager state st; buildOk: buildArtifact() returns
EndSessionStateAlt(st, token, buildOk) ==
    IF token \notin DOMAIN st.sessions THEN st
    ELSE [st EXCEPT !.pending = clearPendingHandlers(st.pending, token)]

EndSessionState(st, token, buildOk) ==
    IF token \notin DOMAIN st.sessions THEN EndAbsent(st, token)
    ELSE LET rid == st.sessions[token].runtime
             ended == RuntimeEnd(st.runtimes[rid])
         IN [sessions |-> MapDelete(st.sessions, token),
             runtimes |-> [st.runtimes EXCEPT ![rid] = ended],
             artifacts |-> IF buildOk
                           THEN MapSet(st.artifacts, token,
                                       [artifact |-> BuildArtifact(rid, ended),
                                        expiresAt |-> now + aTtl * MsPerSecond])
                           ELSE BuildFailed(st.artifacts, token, rid, ended),
             pending |-> clearPendingHandlers(st.pending, token)]

\* audit.ts:177, 194 and 201, the value endSession returns
EndSessionResult(st, token, buildOk) ==
    IF token \in DOMAIN st.sessions /\ buildOk
    THEN BuildArtifact(st.sessions[token].runtime,
                       RuntimeEnd(st.runtimes[st.sessions[token].runtime]))
    ELSE NoArtifact

\* audit.ts:204-206
getArtifact(arts, token) ==
    IF token \in DOMAIN arts THEN arts[token].artifact ELSE NoArtifact

AState == [sessions |-> aSessions, runtimes |-> runtimes,
           artifacts |-> artifacts, pending |-> pendingHandlers]

\* a string value as it is stored: the text itself
Plain(text) == <<"plain", text>>

\* audit.ts:81, createHash('sha256').update(sessionToken).digest('hex')
createHashAlt(text) == Plain(text)

createHash(text) == <<"sha256", text>>

\* audit.ts:83-98, the envelope of a session
Envelope(rid, sessionToken, capabilityNames) ==
    [run_id |-> rid,
     principal |-> [type |-> "agent_session", id |-> createHash(sessionToken)],
     allow |-> capabilityNames]

\* audit.ts:71-74, "seal any existing session for this token before
\* overwriting"
SealPriorAlt(st, token, buildOk) == st

SealPrior(st, token, buildOk) ==
    IF token \in DOMAIN st.sessions THEN EndSessionState(st, token, buildOk) ELSE st

\* audit.ts:70-127
startSession(token, capabilityNames) ==
    /\ \E buildOk \in BOOLEAN :
          LET st == SealPrior(AState, token, buildOk)
              rid == Len(runtimes) + 1
          IN /\ (token \notin DOMAIN aSessions) => buildOk
             /\ runtimes' = Append(st.runtimes,
                                    RuntimeStart(Envelope(rid, token, capabilityNames)))
             /\ aSessions' = MapSet(st.sessions, token,
                                    [runtime |-> rid,
                                     expiresAt |-> now + aTtl * MsPerSecond])
             /\ artifacts' = st.artifacts
             /\ pendingHandlers' = st.pending
    /\ UNCHANGED <<aTtl, aLast, calls>>

\* audit.ts:175-202
auditEndSession(token) ==
    /\ \E buildOk \in BOOLEAN :
          LET st == EndSessionState(AState, token, buildOk)
          IN /\ (token \notin DOMAIN aSessions) => buildOk
             /\ aSessions' = st.sessions
             /\ runtimes' = st.runtimes
             /\ artifacts' = st.artifacts
             /\ pendingHandlers' = st.pending
             /\ aLast' = [op |-> "endSession", token |-> token,
                          run |-> IF token \in DOMAIN aSessions
                                  THEN aSessions[token].runtime ELSE 0,
                          built |-> buildOk,
                          result |-> EndSessionResult(AState, token, buildOk)]
    /\ UNCHANGED <<aTtl, calls>>

\* audit.ts:144-148, no active session: `return handler()`
RunDirectAlt(call) == [call EXCEPT !.pc = "direct"]

RunDirect(call) == [call EXCEPT !.pc = "direct", !.invoked = 1]

\* audit.ts:137-163, callCapability up to its await: the lookup, the push and
\* the synchronous start of runtime.callTool (the policy check)
callCapability(token, capabilityName) ==
    LET id == Len(calls) + 1
        key == HandlerKey(token, capabilityName)
        call == [token |-> token, tool |-> capabilityName,
                 runtime |-> 0, pc |-> "new", served |-> 0, invoked |-> 0,
                 result |-> <<"none", 0>>,
                 \* history: every earlier call had settled when this one was made
                 alone |-> \A j \in 1..Len(calls) : calls[j].pc \in {"returned", "failed"}]
    IN /\ IF token \notin DOMAIN aSessions
          THEN /\ calls' = Append(calls, RunDirect(call))
               /\ UNCHANGED <<pendingHandlers, runtimes>>
          ELSE LET rid == aSessions[token].runtime
                   allowed == PolicyAllows(runtimes[rid], capabilityName)
               IN /\ pendingHandlers' = PushHandler(pendingHandlers, key, id)
                  /\ runtimes' = [runtimes EXCEPT ![rid] =
                                     Log(@, "PolicyEvaluated", capabilityName,
                                         IF allowed THEN <<"allow", 0>>
                                         ELSE <<"deny", 0>>)]
                  /\ calls' = Append(calls,
                                [call EXCEPT !.runtime = rid,
                                             !.pc = IF allowed THEN "waiting" ELSE "denied",
                                             !.result = IF allowed THEN <<"none", 0>>
                                                        ELSE <<"PolicyDeniedError", 0>>])
       /\ UNCHANGED <<aTtl, aLast, aSessions, artifacts>>

\* the handler passed outside a session settles (audit.ts:147); ok: it
\* resolves, otherwise it throws
directSettle(id, ok) ==
    /\ id \in 1..Len(calls)
    /\ calls[id].pc = "direct"
    /\ calls' = [calls EXCEPT ![id].pc = IF ok THEN "returned" ELSE "failed",
                              ![id].result = IF ok THEN <<"out", id>> ELSE <<"err", id>>]
    /\ UNCHANGED <<aTtl, aLast, aSessions, runtimes, artifacts, pendingHandlers>>

\* the calls of one tool on one runtime take turns in arrival order
IsTurnAlt(id) == calls[id].pc = "waiting"

IsTurn(id) ==
    /\ calls[id].pc = "waiting"
    /\ \A j \in 1..Len(calls) :
          (j # id /\ calls[j].runtime = calls[id].runtime /\ calls[j].tool = calls[id].tool)
          => /\ calls[j].pc # "running"
             /\ calls[j].pc = "waiting" => id < j

\* the runtime reaches the call: it logs ToolCalled and invokes the executor
\* of audit.ts:107-116, which dequeues a handler and invokes it
executorStart(id) ==
    /\ id \in 1..Len(calls)
    /\ IsTurn(id)
    /\ LET c == calls[id]
           key == HandlerKey(c.token, c.tool)
           h == QueueHead(pendingHandlers, key)
       IN IF runtimes[c.runtime].ended
          THEN /\ calls' = [calls EXCEPT ![id].pc = "thrown", ![id].result = <<"RunEndedError", 0>>]
               /\ UNCHANGED <<runtimes, pendingHandlers>>
          ELSE /\ runtimes' = [runtimes EXCEPT ![c.runtime] = Log(@, "ToolCalled", c.tool, <<"input", id>>)]
               /\ pendingHandlers' = ShiftHandler(pendingHandlers, key)
               /\ calls' = IF h = 0
                           THEN [calls EXCEPT ![id].pc = "running"]
                           ELSE IF h = id
                           THEN [calls EXCEPT ![id].pc = "running", ![id].served = h,
                                              ![id].invoked = @ + 1]
                           ELSE [calls EXCEPT ![id].pc = "running", ![id].served = h,
                                              ![h].invoked = @ + 1]
    /\ UNCHANGED <<aTtl, aLast, aSessions, artifacts>>

\* the awaited handler settles (audit.ts:113-115); the runtime logs the
\* outcome and callTool settles; on success callCapability returns
\* result.output.data (audit.ts:164); resolves: the handler resolves,
\* otherwise it throws
executorSettle(id, resolves) ==
    /\ id \in 1..Len(calls)
    /\ calls[id].pc = "running"
    /\ LET c == calls[id]
           h == c.served
           ok == h = 0 \/ resolves
           out == IF h = 0 THEN <<"{}", 0>>
                  ELSE IF ok THEN <<"out", h>> ELSE <<"err", h>>
       IN /\ runtimes' = [runtimes EXCEPT ![c.runtime] =
                             Log(@, "ToolReturned", c.tool, out)]
          /\ h = 0 => resolves
          /\ calls' = [calls EXCEPT ![id].pc = IF ok THEN "returned" ELSE "thrown",
                                    ![id].result = out]
    /\ UNCHANGED <<aTtl, aLast, aSessions, artifacts, pendingHandlers>>

\* audit.ts:165-172, the catch block of callCapability.  Denied calls are
\* rejected on the same path of callTool, so their catch blocks run in the
\* order of the calls (promise reactions are run first in, first out).
callCatch(id) ==
    /\ id \in 1..Len(calls)
    /\ calls[id].pc \in {"denied", "thrown"}
    /\ calls[id].pc = "denied" => \A j \in 1..(id - 1) : calls[j].pc # "denied"
    /\ pendingHandlers' = DiscardStale(pendingHandlers, HandlerKey(calls[id].token, calls[id].tool))
    /\ calls' = [calls EXCEPT ![id].pc = "failed"]
    /\ UNCHANGED <<aTtl, aLast, aSessions, runtimes, artifacts>>

\* audit.ts:240-261
RECURSIVE SealExpired(_, _)
SealExpired(st, toks) ==
    IF toks = {} THEN st
    ELSE LET t == CHOOSE x \in toks : TRUE
         IN SealExpired(EndSessionState(st, t, TRUE), toks \ {t})

\* audit.ts:257, the eviction test of the sweep
EvictableAlt(entry, t) == TRUE

Evictable(entry, t) == t >= entry.expiresAt

\* audit.ts:243, the sealing test of the sweep
SweepDueAlt(entry, t) == t > entry.expiresAt

SweepDue(entry, t) == t >= entry.expiresAt

cleanupExpired ==
    LET expired == {t \in DOMAIN aSessions : SweepDue(aSessions[t], now)}
        st == SealExpired(AState, expired)
        kept == {t \in DOMAIN st.artifacts : ~Evictable(st.artifacts[t], now)}
    IN /\ aSessions' = st.sessions
       /\ runtimes' = st.runtimes
       /\ pendingHandlers' = st.pending
       /\ artifacts' = [t \in kept |-> st.artifacts[t]]
       /\ UNCHANGED <<aTtl, aLast, calls>>

ANext ==
    \/ \E token \in ATokens, allow \in AllowLists :
          /\ Len(runtimes) < MaxRuns
          /\ startSession(token, allow) /\ UNCHANGED <<now, svars, rvars, dvars>>
    \/ \E token \in ATokens : auditEndSession(token) /\ UNCHANGED <<now, svars, rvars, dvars>>
    \/ \E token \in ATokens, tool \in Caps :
          /\ Len(calls) < MaxCalls
          /\ callCapability(token, tool) /\ UNCHANGED <<now, svars, rvars, dvars>>
    \/ \E id \in 1..MaxCalls, ok \in BOOLEAN :
          directSettle(id, ok) /\ UNCHANGED <<now, svars, rvars, dvars>>
    \/ \E id \in 1..MaxCalls : executorStart(id) /\ UNCHANGED <<now, svars, rvars, dvars>>
    \/ \E id \in 1..MaxCalls, resolves \in BOOLEAN :
          executorSettle(id, resolves) /\ UNCHANGED <<now, svars, rvars, dvars>>
    \/ \E id \in 1..MaxCalls : callCatch(id) /\ UNCHANGED <<now, svars, rvars, dvars>>
    \/ cleanupExpired /\ UNCHANGED <<now, svars, rvars, dvars>>
    \/ (now < MaxAuditTime /\ Tick) /\ UNCHANGED <<svars, rvars, avars, dvars>>

(***************************************************************************)
(* Properties of AuditManager                                              *)
(***************************************************************************)
CallIds == 1..Len(calls)
\* the call was made on an active session
Audited(id) == calls[id].runtime # 0
\* the session's allow-list admits the call's capability
AllowedCall(id) == Audited(id) /\ calls[id].tool \in runtimes[calls[id].runtime].allow
DeniedCall(id) == Audited(id) /\ calls[id].tool \notin runtimes[calls[id].runtime].allow
\* handler id is still queued under some key
Queued(id) ==
    \E k \in DOMAIN pendingHandlers :
        \E i \in 1..Len(pendingHandlers[k]) : pendingHandlers[k][i] = id

\* C1: a call on an active session for a capability outside the allow-list
\* fails with the policy-denied error; its handler is never invoked, whatever
\* other calls do; once the call has failed its entry is in no pending queue.
C1_DeniedNeverInvoked ==
    \A id \in CallIds :
        DeniedCall(id) =>
            /\ calls[id].invoked = 0
            /\ calls[id].served = 0
            /\ calls[id].pc \in {"denied", "failed"}
            /\ calls[id].result = <<"PolicyDeniedError", 0>>
            /\ calls[id].pc = "failed" => ~Queued(id)

C1_Witness ==
    \E id \in CallIds : \E j \in CallIds :
        /\ DeniedCall(id)
        /\ calls[id].pc = "failed"
        /\ AllowedCall(j)
        /\ calls[j].runtime = calls[id].runtime
        /\ id < j
        /\ calls[j].invoked = 1

\* the ToolCalled and ToolReturned events of one tool in an event list
RECURSIVE ToolEvents(_, _)
ToolEvents(events, tool) ==
    IF events = <<>> THEN <<>>
    ELSE IF /\ Head(events).tool = tool
            /\ Head(events).event_type \in {"ToolCalled", "ToolReturned"}
         THEN <<Head(events)>> \o ToolEvents(Tail(events), tool)
         ELSE ToolEvents(Tail(events), tool)

\* Called(n1), Returned(n1), Called(n2), Returned(n2), ... with n1 < n2 < ...
PairsInOrder(evs) ==
    \A i \in 1..Len(evs) :
        /\ (i % 2 = 1) => /\ evs[i].event_type = "ToolCalled"
                          /\ i > 2 => evs[i - 2].data[2] < evs[i].data[2]
        /\ (i % 2 = 0) => /\ evs[i].event_type = "ToolReturned"
                          /\ evs[i].data[2] = evs[i - 1].data[2]

\* C2: on an active session, overlapping calls of an allowed capability are
\* served in submission order: each call is served by, and returns the output
\* of, the handler it supplied; at most one executor cycle per (session,
\* capability) is in flight; the Called/Returned pairs are in submission order.
C2_NthCallServedByNthHandler ==
    /\ \A id \in CallIds :
          AllowedCall(id) =>
             /\ calls[id].pc = "running" => calls[id].served = id
             /\ calls[id].pc = "returned" => calls[id].result = <<"out", id>>
             /\ \A j \in CallIds :
                   ( /\ j # id
                     /\ calls[j].runtime = calls[id].runtime
                     /\ calls[j].tool = calls[id].tool )
                   => ~(calls[id].pc = "running" /\ calls[j].pc = "running")
    /\ \A rid \in 1..Len(runtimes) : \A tool \in Caps :
          PairsInOrder(ToolEvents(runtimes[rid].events, tool))

\* the event list is a hash chain
ChainOk(events) ==
    \A i \in 1..Len(events) :
        /\ events[i].event_hash =
              HashEvent(events[i].event_type, events[i].tool, events[i].data,
                        events[i].parent_event_hash)
        /\ i = 1 => events[i].parent_event_hash = NullHash
        /\ i > 1 => events[i].parent_event_hash = events[i - 1].event_hash

\* C3: in every sealed artifact the first event has an empty parent hash and
\* every later event's parent hash is the hash of the event before it,
\* whatever allowed, denied and failing calls preceded the sealing.
C3_ArtifactHashChain ==
    \A token \in DOMAIN artifacts : ChainOk(artifacts[token].artifact.events)

C3_Witness ==
    \E token \in DOMAIN artifacts :
        LET events == artifacts[token].artifact.events IN
        /\ \E i \in 1..Len(events) : events[i].data[1] = "deny"
        /\ \E i \in 1..Len(events) :
              events[i].event_type = "ToolReturned" /\ events[i].data[1] = "err"
        /\ events[Len(events)].event_type = "RunEnded"

\* the step is a callCapability on a token without an active session
DirectCallStep ==
    /\ Len(calls') = Len(calls) + 1
    /\ calls'[Len(calls')].token \notin DOMAIN aSessions

\* C13: callCapability on a token with no active audit session invokes the
\* supplied handler exactly once and returns its result or propagates its
\* error; it is never blocked, records no event, and leaves the active
\* sessions, the artifacts and the pending queues unchanged.
C13_NoSessionRunsHandlerDirectly ==
    [][ /\ DirectCallStep =>
              /\ calls'[Len(calls')].pc = "direct"
              /\ calls'[Len(calls')].invoked = 1
              /\ UNCHANGED <<aSessions, runtimes, artifacts, pendingHandlers>>
        /\ \A id \in CallIds : ~Audited(id) =>
              /\ calls'[id].invoked = 1
              /\ calls'[id].served = 0
              /\ calls[id].pc = "direct" => ENABLED directSettle(id, TRUE)
              /\ calls'[id].pc # calls[id].pc =>
                    /\ calls[id].pc = "direct"
                    /\ \/ calls'[id].pc = "returned" /\ calls'[id].result = <<"out", id>>
                       \/ calls'[id].pc = "failed" /\ calls'[id].result = <<"err", id>>
                    /\ UNCHANGED <<aSessions, runtimes, artifacts, pendingHandlers>>
      ]_vars

C13_Witness ==
    \E id \in CallIds :
        /\ ~Audited(id)
        /\ calls[id].pc = "failed"
        /\ calls[id].token \notin DOMAIN aSessions
        /\ aSessions # << >>
        /\ \E k \in DOMAIN pendingHandlers : pendingHandlers[k] # <<>>

\* the step is an endSession(token) call that found an active session
EndsActive ==
    /\ aLast' # aLast
    /\ aLast'.op = "endSession"
    /\ aLast'.token \in DOMAIN aSessions
\* the value returned is the sealed artifact of the session: its envelope,
\* every event the session recorded, in order, closed by RunEnded, and the
\* signature over that chain; afterwards getArtifact returns the same value
ReturnsSealedArtifact ==
    LET token == aLast'.token
        rid == aSessions[token].runtime
        art == aLast'.result
    IN /\ art # NoArtifact
       /\ art.run_id = rid
       /\ art.allow = runtimes[rid].allow
       /\ art.events = AppendEvent(runtimes[rid].events, "RunEnded", "none",
                                   <<"completed", 0>>)
       /\ art.runtime_signature = <<"signed", art.events>>
       /\ getArtifact(artifacts', token) = art

\* C14 as stated: endSession(token) on an active audit session returns an
\* artifact holding the envelope, the complete ordered event list and a
\* chain signature; the token is no longer active afterwards and
\* getArtifact(token) returns that same artifact.
C14_EndSessionSeals ==
    [][ EndsActive =>
          /\ aLast'.token \notin DOMAIN aSessions'
          /\ ReturnsSealedArtifact ]_vars

\* C14 amended: the same when runtime.buildArtifact() returns; when it
\* throws, endSession returns null, the token is no longer active and the
\* stored artifacts are unchanged.
C14_EndSessionSealsUnlessBuildFails ==
    [][ EndsActive =>
          /\ aLast'.token \notin DOMAIN aSessions'
          /\ ReturnsSealedArtifact
             \/ (aLast'.result = NoArtifact /\ artifacts' = artifacts) ]_vars

C14_Witness ==
    /\ aLast.op = "endSession"
    /\ aLast.result # NoArtifact
    /\ Len(aLast.result.events) >= 5
    /\ getArtifact(artifacts, aLast.token) = aLast.result
    /\ aLast.token \notin DOMAIN aSessions

\* the step is an endSession(token) call that found no active session
EndsAbsent ==
    /\ aLast' # aLast
    /\ aLast'.op = "endSession"
    /\ aLast'.token \notin DOMAIN aSessions

\* C15: an artifact is created once per audit session: endSession on a
\* session that has already ended is a no-op that returns the prior artifact
\* or null and leaves the stored artifacts, the active sessions and the
\* pending queues unchanged.
C15_EndTwiceIsNoOp ==
    [][ /\ EndsAbsent =>
              /\ aLast'.result \in {NoArtifact, getArtifact(artifacts, aLast'.token)}
              /\ UNCHANGED <<aSessions, runtimes, artifacts, pendingHandlers, calls>>
        /\ \A token \in ATokens :
              ( /\ token \in DOMAIN artifacts'
                /\ token \in DOMAIN artifacts => artifacts'[token] # artifacts[token] )
              => /\ token \in DOMAIN aSessions
                 /\ artifacts'[token].artifact.run_id = aSessions[token].runtime
      ]_vars

C15_Witness ==
    /\ aLast.op = "endSession"
    /\ aLast.run = 0
    /\ aLast.result = NoArtifact
    /\ aLast.token \in DOMAIN artifacts
    /\ Len(artifacts[aLast.token].artifact.events) >= 5

\* the ToolCalled and ToolReturned events of an event list
RECURSIVE CallReturnEvents(_)
CallReturnEvents(events) ==
    IF events = <<>> THEN <<>>
    ELSE IF Head(events).event_type \in {"ToolCalled", "ToolReturned"}
         THEN <<Head(events)>> \o CallReturnEvents(Tail(events))
         ELSE CallReturnEvents(Tail(events))

\* when endSession is called the session has had exactly one search call,
\* which returned, and one checkout call, which was denied
SearchThenDeniedCheckout(rid) ==
    \E s \in CallIds : \E d \in CallIds :
        /\ {id \in CallIds : calls[id].runtime = rid} = {s, d}
        /\ calls[s].tool = "search" /\ calls[s].pc = "returned"
        /\ calls[d].tool = "checkout" /\ DeniedCall(d)

\* C16: a denied call leaves no call/return trace.  No artifact holds a
\* Called or Returned event of a capability outside its allow-list; and when
\* a session has had one successful search call and one denied checkout
\* call, the artifact endSession returns holds exactly one Called/Returned
\* pair, for search, and none for checkout.
C16_DeniedLeavesNoTrace ==
    [][ /\ \A token \in DOMAIN artifacts' :
              LET art == artifacts'[token].artifact IN
              \A i \in 1..Len(art.events) :
                  art.events[i].event_type \in {"ToolCalled", "ToolReturned"}
                  => art.events[i].tool \in art.allow
        /\ ( /\ EndsActive
             /\ aLast'.result # NoArtifact
             /\ SearchThenDeniedCheckout(aLast'.run) )
           => LET evs == CallReturnEvents(aLast'.result.events) IN
              /\ Len(evs) = 2
              /\ evs[1].event_type = "ToolCalled" /\ evs[1].tool = "search"
              /\ evs[2].event_type = "ToolReturned" /\ evs[2].tool = "search"
              /\ getArtifact(artifacts', aLast'.token) = aLast'.result
      ]_vars

C16_Witness ==
    /\ aLast.op = "endSession"
    /\ aLast.result # NoArtifact
    /\ aLast.result.allow = {"search", "cart.add"}
    /\ SearchThenDeniedCheckout(aLast.run)
    /\ \A id \in CallIds : calls[id].pc \in {"returned", "failed"}
    /\ Len(CallReturnEvents(aLast.result.events)) = 2
    /\ getArtifact(artifacts, aLast.token) = aLast.result

\* the ids carried by the ToolCalled events of an event list, in chain order
RECURSIVE CalledIds(_)
CalledIds(events) ==
    IF events = <<>> THEN <<>>
    ELSE IF Head(events).event_type = "ToolCalled"
         THEN <<Head(events).data[2]>> \o CalledIds(Tail(events))
         ELSE CalledIds(Tail(events))
\* the same for the ToolCalled events of one tool
CalledIdsOf(events, tool) == CalledIds(ToolEvents(events, tool))
Increasing(ids) == \A i \in 1..Len(ids) : \A j \in 1..Len(ids) : i < j => ids[i] < ids[j]

\* the elements of a set of call ids, in submission order
RECURSIVE InOrder(_)
InOrder(ids) ==
    IF ids = {} THEN <<>>
    ELSE LET m == CHOOSE x \in ids : \A y \in ids : x <= y
         IN <<m>> \o InOrder(ids \ {m})
\* the chain after PolicyEvaluated, ToolCalled, ToolReturned of each call
RECURSIVE LogCalls(_, _)
LogCalls(events, ids) ==
    IF ids = <<>> THEN events
    ELSE LET id == Head(ids)
             tool == calls[id].tool
         IN LogCalls(AppendEvent(AppendEvent(AppendEvent(events,
                        "PolicyEvaluated", tool, <<"allow", 0>>),
                        "ToolCalled", tool, <<"input", id>>),
                        "ToolReturned", tool, <<"out", id>>),
                     Tail(ids))
\* when endSession is called every call of the session was made after the
\* calls before it had settled, and every one returned; then the artifact is
\* RunStarted, three events per call in call order, RunEnded
SequentialChain ==
    LET rid == aLast'.run
        mine == {id \in CallIds : calls[id].runtime = rid}
    IN ( /\ EndsActive
         /\ aLast'.result # NoArtifact
         /\ \A id \in mine : calls[id].alone /\ calls[id].pc = "returned" )
       => /\ aLast'.result.events =
                AppendEvent(LogCalls(RuntimeStart(runtimes[rid]).events,
                                     InOrder(mine)),
                            "RunEnded", "none", <<"completed", 0>>)
          /\ Len(aLast'.result.events) = 3 * Cardinality(mine) + 2

\* C17 as stated: the chain of a session holds the Called events in the
\* order in which the callCapability calls were made, over all capabilities;
\* k sequential successful calls give exactly RunStarted, then
\* PolicyEvaluated, ToolCalled, ToolReturned per call in call order, then
\* RunEnded.
C17_ChainInCallOrder ==
    [][ /\ \A rid \in 1..Len(runtimes') : Increasing(CalledIds(runtimes'[rid].events))
        /\ SequentialChain ]_vars

\* C17 amended: the Called events of one capability are in call order, and
\* so are those of calls that do not overlap; the chain of k sequential
\* successful calls is as stated.
C17_ChainInCallOrderPerCapability ==
    [][ /\ \A rid \in 1..Len(runtimes') : \A tool \in Caps :
              Increasing(CalledIdsOf(runtimes'[rid].events, tool))
        /\ SequentialChain ]_vars

C17_Witness ==
    /\ aLast.op = "endSession"
    /\ aLast.result # NoArtifact
    /\ Len(aLast.result.events) = 3 * MaxCalls + 2
    /\ \A id \in CallIds : calls[id].alone /\ calls[id].pc = "returned"
    /\ \E id \in CallIds : calls[id].tool = "checkout"
    /\ \E id \in CallIds : calls[id].tool = "search"

\* the handler supplied with call id was invoked and threw
HandlerThrew(id) ==
    \E j \in CallIds : calls[j].served = id /\ calls[j].result = <<"err", id>>
\* the chain of runtime rid holds the failed return of handler id
FailureLogged(rid, id) ==
    \E i \in 1..Len(runtimes[rid].events) :
        /\ runtimes[rid].events[i].event_type = "ToolReturned"
        /\ runtimes[rid].events[i].data = <<"err", id>>

\* C12: if the handler of an allowed call throws, that call's callCapability
\* rejects with the handler's error, never returning a normal result, and the
\* failed return is in the session's event chain by the time the caller sees
\* the error.
\* (The chain part is asked only of a chain that was not finalised while the
\* handler ran.)
C12_HandlerErrorPropagates ==
    \A id \in CallIds :
        (AllowedCall(id) /\ HandlerThrew(id)) =>
            /\ calls[id].pc \in {"thrown", "failed"}
            /\ calls[id].result = <<"err", id>>
            /\ runtimes[calls[id].runtime].ended \/ FailureLogged(calls[id].runtime, id)

\* C28: while a session stays active, every handler submitted to
\* callCapability for an allowed capability is invoked exactly once: no
\* failing call removes another pending call's handler from the queue
\* uninvoked, and no call returns a normal result without its own handler
\* having run.
C28_EveryHandlerRunsOnce ==
    \A id \in CallIds :
        (AllowedCall(id) /\ ~runtimes[calls[id].runtime].ended) =>
            /\ calls[id].invoked <= 1
            /\ calls[id].invoked = 0 => Queued(id)
            /\ calls[id].pc = "returned" =>
                  /\ calls[id].invoked = 1
                  /\ calls[id].served = id

\* every ToolCalled of the list is directly followed, among the events of
\* its tool, by one ToolReturned, and no ToolReturned stands alone
CalledReturnedPaired(evs) ==
    /\ Len(evs) % 2 = 0
    /\ \A i \in 1..Len(evs) :
          evs[i].event_type = IF i % 2 = 1 THEN "ToolCalled" ELSE "ToolReturned"

\* C29: in every sealed artifact each Called event is followed by exactly
\* one Returned (or failure) event for the same call, also when the session
\* was ended, or sealed by the TTL sweep, while handlers were in flight.
C29_CalledReturnedCorrespond ==
    \A token \in DOMAIN artifacts : \A tool \in Caps :
        CalledReturnedPaired(ToolEvents(artifacts[token].artifact.events, tool))

\* C30: once a session is sealed no further event is appended to its chain,
\* and the event list of the stored artifact is never modified afterwards,
\* even when handlers in flight at sealing time complete or fail later.
C30_SealedChainFrozen ==
    [][ /\ \A rid \in 1..Len(runtimes) :
              runtimes[rid].ended => runtimes'[rid] = runtimes[rid]
        /\ \A token \in DOMAIN artifacts :
              ( /\ token \in DOMAIN artifacts'
                /\ artifacts'[token].artifact.run_id = artifacts[token].artifact.run_id )
              => /\ artifacts'[token] = artifacts[token]
                 /\ artifacts'[token].artifact.events =
                       runtimes'[artifacts[token].artifact.run_id].events ]_vars

\* a handler that was running when its session was sealed has since settled,
\* and the stored artifact holds its ToolCalled and no ToolReturned
C30_Witness ==
    \E id \in CallIds : \E token \in DOMAIN artifacts :
        LET events == artifacts[token].artifact.events IN
        /\ Audited(id)
        /\ artifacts[token].artifact.run_id = calls[id].runtime
        /\ calls[id].served = id
        /\ calls[id].pc \in {"returned", "failed"}
        /\ \E i \in 1..Len(events) :
              events[i].event_type = "ToolCalled" /\ events[i].data = <<"input", id>>
        /\ \A i \in 1..Len(events) : events[i].event_type # "ToolReturned"

\* handler h was started by the executor cycle of call m and has not settled
Unresolved(m, h) == calls[m].pc = "running" /\ calls[m].served = h
\* call j is a later call of the (session, capability) pair of call h
LaterOnSamePair(j, h) ==
    /\ j > h
    /\ calls[j].runtime = calls[h].runtime
    /\ calls[j].tool = calls[h].tool

NoQueueOf(pending, token) ==
    \A name \in Caps : HandlerKey(token, name) \notin DOMAIN pending

\* call b is the only call ever made on its (session, capability) pair
OwnPair(b) ==
    /\ calls[b].runtime # 0
    /\ \A j \in CallIds :
          j # b => calls[j].token # calls[b].token \/ calls[j].tool # calls[b].tool
\* call a is held up on a pair other than b's: its handler has not resolved
BlockedElsewhere(a, b) ==
    /\ a # b
    /\ calls[a].runtime # 0
    /\ calls[a].pc \in {"waiting", "running"}
    /\ calls[a].token # calls[b].token \/ calls[a].tool # calls[b].tool

\* C33: different capabilities on one session, and one capability on
\* different sessions, are independent: whatever the calls on the other
\* pairs do (blocked, or running a handler that never resolves), a call that
\* is alone on its pair can start at once, is served by its own handler,
\* which is invoked once, can complete as soon as that handler resolves, and
\* returns that handler's output.
C33_PairsAreIndependent ==
    \A b \in CallIds : OwnPair(b) =>
        /\ calls[b].pc = "waiting" => ENABLED executorStart(b)
        /\ calls[b].pc = "running" =>
              /\ calls[b].served = b /\ calls[b].invoked = 1
              /\ ENABLED executorSettle(b, TRUE)
        /\ calls[b].pc = "returned" => calls[b].result = <<"out", b>>
        /\ calls[b].pc \in {"waiting", "running", "returned", "thrown", "failed"}

\* a call on (S, c) made first is still running its handler while a later call
\* on (S, c') and a later call on (S', c) have returned
C33_Witness ==
    /\ Len(calls) = 3
    /\ \A b \in CallIds : OwnPair(b)
    /\ calls[1].pc = "running"
    /\ calls[2].pc = "returned" /\ BlockedElsewhere(1, 2)
    /\ calls[3].pc = "returned" /\ BlockedElsewhere(1, 3)
    /\ calls[2].token = calls[1].token /\ calls[2].tool # calls[1].tool
    /\ calls[3].token # calls[1].token /\ calls[3].tool = calls[1].tool

\* run rid is the active audit session of token and its deadline lies within
\* the time the clock covers
ActiveRun(token, rid) ==
    /\ token \in DOMAIN aSessions
    /\ aSessions[token].runtime = rid
    /\ aSessions[token].expiresAt <= MaxLifeTime
\* run rid of token has been sealed: it is no longer active, its chain is
\* closed, no pending queue of the token is left, and getArtifact(token)
\* returns its artifact
SealedRun(token, rid) ==
    /\ token \notin DOMAIN aSessions
    /\ rid \in DOMAIN runtimes
    /\ runtimes[rid].ended
    /\ NoQueueOf(pendingHandlers, token)
    /\ getArtifact(artifacts, token) # NoArtifact
    /\ getArtifact(artifacts, token) = BuildArtifact(rid, runtimes[rid])

QueuesOf(pending, token) ==
    [name \in {n \in Caps : HandlerKey(token, n) \in DOMAIN pending} |->
        pending[HandlerKey(token, name)]]
\* what the manager holds for token: its active session, artifact and queues
HeldFor(sess, arts, pending, token) ==
    <<IF token \in DOMAIN sess THEN <<sess[token]>> ELSE << >>,
      IF token \in DOMAIN arts THEN <<arts[token]>> ELSE << >>,
      QueuesOf(pending, token)>>
\* the step is an endSession(token) call
EndSessionStep(token) ==
    /\ aLast' # aLast
    /\ aLast'.op = "endSession"
    /\ aLast'.token = token

\* C35: endSession(token) purges exactly the pending queues of that token:
\* afterwards no queue of token is left, and the pending queues, the active
\* session and the artifact of every other token are as they were before.
C35_EndSessionPurgesOnlyItsToken ==
    [][ \A token \in PrefixTokens : EndSessionStep(token) =>
           /\ NoQueueOf(pendingHandlers', token)
           /\ \A other \in PrefixTokens \ {token} :
                 HeldFor(aSessions', artifacts', pendingHandlers', other)
                    = HeldFor(aSessions, artifacts, pendingHandlers, other) ]_vars

\* C23: if artifact construction or signing fails during endSession, the call
\* returns null, no artifact (in particular no truncated one) is stored for
\* the token, and the session and its pending queues are still removed.
C23_BuildFailureSurfaced ==
    [][ (EndsActive /\ ~aLast'.built) =>
          /\ aLast'.result = NoArtifact
          /\ artifacts' = artifacts
          /\ aLast'.token \notin DOMAIN aSessions'
          /\ NoQueueOf(pendingHandlers', aLast'.token) ]_vars

\* a failed sealing of a session that had a handler queued and an earlier
\* artifact under another token
C23_Witness ==
    /\ aLast.op = "endSession"
    /\ aLast.run # 0
    /\ ~aLast.built
    /\ aLast.result = NoArtifact
    /\ getArtifact(artifacts, aLast.token) = NoArtifact
    /\ artifacts # << >>
    /\ \E id \in CallIds : calls[id].runtime = aLast.run /\ calls[id].pc = "waiting"

\* the step is a startSession(token, ...) that found a session active under
\* the token
RestartStep(token) ==
    /\ token \in DOMAIN aSessions
    /\ Len(runtimes') = Len(runtimes) + 1
    /\ token \in DOMAIN aSessions'
    /\ aSessions'[token].runtime = Len(runtimes')
\* the prior session's chain is finalised and the new session's chain holds
\* only its own RunStarted and no event of the prior session
PriorEndedNewFresh(token) ==
    LET old == aSessions[token].runtime
        new == aSessions'[token].runtime
    IN /\ runtimes'[old].ended
       /\ runtimes'[new].events = RuntimeStart(runtimes'[new]).events
       /\ Len(runtimes'[new].events) = 1
       /\ ~runtimes'[new].ended
       /\ \A i \in 1..Len(runtimes'[new].events) : \A j \in 1..Len(runtimes'[old].events) :
             runtimes'[new].events[i] # runtimes'[old].events[j]
\* the prior session's artifact is stored under the token
PriorArtifactStored(token) ==
    LET old == aSessions[token].runtime
        art == getArtifact(artifacts', token)
    IN /\ art # NoArtifact
       /\ art.run_id = old
       /\ art.events = AppendEvent(runtimes[old].events, "RunEnded", "none",
                                   <<"completed", 0>>)
       /\ art.runtime_signature = <<"signed", art.events>>

\* C24 as stated: startSession(token, ...) on a token with an active session
\* seals the prior session first: its artifact is stored and getArtifact(token)
\* returns it, the new session starts with an empty chain, and no event of
\* the prior session is in the new session's chain.
C24_RestartSealsPrior ==
    [][ \A token \in ATokens : RestartStep(token) =>
          /\ PriorEndedNewFresh(token)
          /\ PriorArtifactStored(token) ]_vars

\* C24 amended: the same, except that when runtime.buildArtifact() throws for
\* the prior session no artifact is stored for it and the stored artifacts
\* are unchanged.
C24_RestartSealsPriorUnlessBuildFails ==
    [][ \A token \in ATokens : RestartStep(token) =>
          /\ PriorEndedNewFresh(token)
          /\ PriorArtifactStored(token) \/ artifacts' = artifacts ]_vars

\* a second session runs under a token whose first session, which had
\* recorded a call, was sealed by the startSession of the second
C24_Witness ==
    \E token \in DOMAIN aSessions :
        /\ aSessions[token].runtime = 2
        /\ aLast.op = "init"
        /\ now < aSessions[token].expiresAt
        /\ token \in DOMAIN artifacts
        /\ artifacts[token].artifact.run_id = 1
        /\ \E i \in 1..Len(artifacts[token].artifact.events) :
              artifacts[token].artifact.events[i].event_type = "ToolCalled"
        /\ Len(runtimes[2].events) = 1

\* the envelope and events of a runtime or of an artifact hold the token t
\* in plaintext in none of their fields
NoPlaintext(x, t) ==
    /\ x.principal.id # Plain(t)
    /\ x.principal.type # t
    /\ t \notin x.allow
    /\ \A i \in 1..Len(x.events) :
          /\ x.events[i].tool # t
          /\ x.events[i].event_type # t
          /\ x.events[i].data # Plain(t)
          /\ x.events[i].data[1] # t

Seals(token) ==
    /\ token \in DOMAIN artifacts'
    /\ token \in DOMAIN artifacts => artifacts'[token] # artifacts[token]
\* an artifact is stored with the retention deadline s + TTL, s the time of
\* the sealing step
SealedUntilTtl ==
    \A token \in ATokens :
        Seals(token) => artifacts'[token].expiresAt = now + aTtl * MsPerSecond
\* the step seals the session that was active under token
SealsActiveSession(token) ==
    /\ token \in DOMAIN aSessions
    /\ Seals(token)
    /\ artifacts'[token].artifact.run_id = aSessions[token].runtime

C22_ExpiredArtifactNotReturned ==
    \A token \in ATokens :
        ( /\ token \in DOMAIN artifacts
          /\ now >= artifacts[token].expiresAt )
        => getArtifact(artifacts, token) = NoArtifact

(***************************************************************************)
(* AgentDoor: the routes of server.ts over the three managers, with audit  *)
(* enabled.  A route runs to its first await in one step; the rest of a    *)
(* capability call is the AuditManager's executor cycle or the settling of *)
(* the handler.                                                            *)
(***************************************************************************)
\* capabilities/checkout.ts:12, the capabilities declared requiresSession
RequiresSession == {"checkout"}
\* server.ts:95, this.rateLimit
RateLimit == 2
\* extractToken(req) returns null
NoToken == 0
\* req.ip of the requests
ReqIps == {"ipA"}
\* session.ts:24, randomBytes(32).toString('hex'): the text of the tokens
\* SessionManager issues, which the routes hand to the AuditManager
HexTokens == <<"5f1c", "a83e", "0b7d", "e496">>

Hex(token) == HexTokens[token]

DInit ==
    /\ SInit /\ ttl >= 1
    /\ RInit
    /\ AInit /\ aTtl = ttl
    /\ requests = << >>

\* server.ts:423, `if (!rate.allowed) return rateLimitResponse(rate.resetAt)`
RateDeniedAlt(rate) == FALSE

RateDenied(rate) == ~rate.allowed

\* the session validates at time t (history field of a request)
IsLive(token, t) == token \in DOMAIN sessions /\ ~IsExpired(sessions[token], t)

Request(route, cap, ip, token, via, status) ==
    [route |-> route, cap |-> cap, ip |-> ip, token |-> token,
     live |-> IsLive(token, now), via |-> via, call |-> 0, status |-> status,
     \* of a GET audit request: the :session_id, the artifact stored for it
     \* when the request is made (history), and the data of the response body
     sid |-> NoToken, stored |-> NoArtifact, data |-> NoArtifact]

\* server.ts:343-374, POST /session
sessionRoute(ip) ==
    /\ checkRateLimit(ip, RateLimit)
    /\ IF RateDenied(rLast')
       THEN /\ requests' = Append(requests, Request("session", "none", ip, NoToken, "rate", 429))
            /\ UNCHANGED <<svars, avars>>
       ELSE /\ createSession(ip)
            /\ IF sLast'.result = "MaxSessionsError"
               THEN /\ requests' = Append(requests,
                                      Request("session", "none", ip, NoToken, "quota", 429))
                    /\ UNCHANGED avars
               ELSE /\ Len(runtimes) < MaxRuns
                    /\ startSession(Hex(sLast'.token), Caps)
                    /\ requests' = Append(requests,
                                      Request("session", "none", ip, sLast'.token, "created", 201))
    /\ UNCHANGED now

\* server.ts:376-395, DELETE /session
deleteRoute(ip, token) ==
    /\ checkRateLimit(ip, RateLimit)
    /\ IF RateDenied(rLast')
       THEN /\ requests' = Append(requests, Request("delete", "none", ip, token, "rate", 429))
            /\ UNCHANGED <<svars, avars>>
       ELSE IF token = NoToken
       THEN /\ requests' = Append(requests, Request("delete", "none", ip, token, "auth", 401))
            /\ UNCHANGED <<svars, avars>>
       ELSE /\ auditEndSession(Hex(token))
            /\ endSession(token)
            /\ requests' = Append(requests, Request("delete", "none", ip, token, "ended", 200))
    /\ UNCHANGED now

\* server.ts:397-414, GET /audit/:session_id
auditRoute(ip, sid, token) ==
    LET req(via, status) ==
            [Request("audit", "none", ip, token, via, status)
                EXCEPT !.sid = sid, !.stored = IF sid = NoToken THEN NoArtifact
                                      ELSE getArtifact(artifacts, Hex(sid))]
        artifact == getArtifact(artifacts, Hex(sid))
    IN /\ checkRateLimit(ip, RateLimit)
       /\ requests' = Append(requests,
             IF RateDenied(rLast') THEN req("rate", 429)
             ELSE IF token = NoToken THEN req("auth", 401)
             ELSE IF token # sid THEN req("forbidden", 403)
             ELSE IF artifact = NoArtifact THEN req("lookup", 404)
             ELSE [req("lookup", 200) EXCEPT !.data = artifact])
       /\ UNCHANGED <<now, svars, avars>>

\* server.ts:416-464, the route of capability cap, up to its await
capabilityRoute(cap, ip, token) ==
    /\ checkRateLimit(ip, RateLimit)
    /\ IF RateDenied(rLast')
       THEN /\ requests' = Append(requests, Request("capability", cap, ip, token, "rate", 429))
            /\ UNCHANGED <<svars, avars>>
       ELSE IF cap \in RequiresSession
       THEN IF token = NoToken
            THEN /\ requests' = Append(requests,
                                   Request("capability", cap, ip, token, "auth", 401))
                 /\ UNCHANGED <<svars, avars>>
            ELSE /\ validateSession(token)
                 /\ IF sLast'.result = "null"
                    THEN /\ requests' = Append(requests,
                                           Request("capability", cap, ip, token, "auth", 401))
                         /\ UNCHANGED avars
                    ELSE /\ callCapability(Hex(token), cap)
                         /\ requests' = Append(requests,
                                           [Request("capability", cap, ip, token, "audit", 0)
                                               EXCEPT !.call = Len(calls) + 1])
       ELSE \* session stays null: `data = await cap.handler(req, session)`
            /\ requests' = Append(requests,
                              Request("capability", cap, ip, token, "handler", 0))
            /\ UNCHANGED <<svars, avars>>
    /\ UNCHANGED now

\* the handler awaited at server.ts:446 settles; ok: it resolves
handlerSettle(r, ok) ==
    /\ r \in 1..Len(requests)
    /\ requests[r].via = "handler"
    /\ requests[r].status = 0
    /\ requests' = [requests EXCEPT ![r].status = IF ok THEN 200 ELSE 400]
    /\ UNCHANGED <<now, svars, rvars, avars>>

\* The requests and the continuations of their capability calls.  (A call
\* reaches callCapability only with a session that validated, whose audit
\* session the same POST /session started; the sweeps of the managers are
\* exercised by SessionSpec, RateSpec and AuditSpec.)
DNext ==
    \/ \E ip \in ReqIps : LogTotal < MaxLog /\ sessionRoute(ip)
    \/ \E ip \in ReqIps, token \in 0..MaxTokens :
          LogTotal < MaxLog /\ deleteRoute(ip, token)
    \/ \E cap \in Caps, ip \in ReqIps, token \in 0..MaxTokens :
          /\ Len(calls) < MaxCalls
          /\ LogTotal < MaxLog
          /\ capabilityRoute(cap, ip, token)
    \/ \E r \in 1..MaxLog, ok \in BOOLEAN : handlerSettle(r, ok)
    \/ \E id \in 1..MaxCalls : executorStart(id) /\ UNCHANGED <<now, svars, rvars, dvars>>
    \/ \E id \in 1..MaxCalls, resolves \in BOOLEAN :
          executorSettle(id, resolves) /\ UNCHANGED <<now, svars, rvars, dvars>>
    \/ \E id \in 1..MaxCalls : callCatch(id) /\ UNCHANGED <<now, svars, rvars, dvars>>
    \/ Tick /\ UNCHANGED <<svars, rvars, avars, dvars>>

\* the life of one session in both managers: its endpoints, the calls of a
\* capability that requires a session, and the sweeps of both managers
KNext ==
    \/ \E ip \in ReqIps : LogTotal < MaxLog /\ sessionRoute(ip)
    \/ \E ip \in ReqIps, token \in 0..MaxTokens :
          LogTotal < MaxLog /\ deleteRoute(ip, token)
    \/ \E cap \in RequiresSession, ip \in ReqIps, token \in 0..MaxTokens :
          /\ Len(calls) < MaxCalls
          /\ LogTotal < MaxLog
          /\ capabilityRoute(cap, ip, token)
    \/ \E id \in 1..MaxCalls : executorStart(id) /\ UNCHANGED <<now, svars, rvars, dvars>>
    \/ \E id \in 1..MaxCalls, resolves \in BOOLEAN :
          executorSettle(id, resolves) /\ UNCHANGED <<now, svars, rvars, dvars>>
    \/ \E id \in 1..MaxCalls : callCatch(id) /\ UNCHANGED <<now, svars, rvars, dvars>>
    \/ cleanup /\ UNCHANGED <<now, rvars, avars, dvars>>
    \/ cleanupExpired /\ UNCHANGED <<now, svars, rvars, dvars>>
    \/ Tick /\ UNCHANGED <<svars, rvars, avars, dvars>>

\* the session endpoints and the reporting endpoint
PNext ==
    \/ \E ip \in ReqIps : LogTotal < MaxLog /\ sessionRoute(ip)
    \/ \E ip \in ReqIps, token \in 0..MaxTokens :
          LogTotal < MaxLog /\ deleteRoute(ip, token)
    \/ \E ip \in ReqIps, sid \in 1..MaxTokens, token \in 0..MaxTokens :
          LogTotal < MaxLog /\ auditRoute(ip, sid, token)
    \/ Tick /\ UNCHANGED <<svars, rvars, avars, dvars>>

(***************************************************************************)
(* Properties of the dispatch                                              *)
(***************************************************************************)
\* C26: with audit enabled, a GET on the audit endpoint for session id X
\* returns the sealed artifact (ok: true, with run_id, envelope, events and
\* runtime_signature) once session X has been ended, and returns 404 when no
\* artifact is stored for X, the request carrying no session-token header or
\* any.  (Requests turned away by the rate limit are not counted.)
C26_AuditEndpointReturnsArtifact ==
    \A r \in 1..Len(requests) :
        (requests[r].route = "audit" /\ requests[r].via # "rate") =>
            IF requests[r].stored # NoArtifact
            THEN /\ requests[r].status = 200
                 /\ requests[r].data = requests[r].stored
            ELSE requests[r].status = 404

\* C18: with audit enabled, every capability call made with a valid live
\* session token goes through the session's audit chain, whether or not the
\* capability requires a session.  (Requests turned away by the rate limit
\* are not counted as calls.)
C18_LiveTokenCallsAudited ==
    \A r \in 1..Len(requests) :
        ( /\ requests[r].route = "capability"
          /\ requests[r].via # "rate"
          /\ requests[r].live )
        => /\ requests[r].via = "audit"
           /\ Audited(requests[r].call)

\* the step is a request to a capability route
CapabilityStep ==
    /\ Len(requests') = Len(requests) + 1
    /\ requests'[Len(requests')].route = "capability"

\* C19: dispatch checks the rate limit, then the session, then runs the
\* handler (audited or direct): when checkRateLimit denies, or the capability
\* requires a session and the token is missing, unknown or expired, the
\* failure is reported, no handler is invoked and no audit event is recorded;
\* a rate-limited request does not reach validateSession.
C19_ChecksBeforeHandler ==
    [][ CapabilityStep =>
          LET q == requests'[Len(requests')] IN
          /\ rLast'.key = q.ip /\ rLast'.at = now
          /\ ~rLast'.allowed =>
                /\ q.via = "rate" /\ q.status = 429
                /\ UNCHANGED <<svars, avars>>
          /\ (rLast'.allowed /\ q.cap \in RequiresSession /\ ~q.live) =>
                /\ q.via = "auth" /\ q.status = 401
                /\ UNCHANGED avars
          /\ q.via \in {"audit", "handler"} =>
                /\ rLast'.allowed
                /\ q.cap \in RequiresSession =>
                      /\ q.live
                      /\ sLast'.op = "validateSession"
                      /\ sLast'.token = q.token
                      /\ sLast'.result = "session"
      ]_vars

C19_Witness ==
    /\ \E r \in 1..Len(requests) :
          /\ requests[r].route = "capability"
          /\ requests[r].via = "rate"
          /\ requests[r].live
    /\ \E r \in 1..Len(requests) :
          /\ requests[r].cap \in RequiresSession
          /\ requests[r].via = "auth"
          /\ requests[r].token \in DOMAIN issuedAt
    /\ calls = << >>

\* a token that validateSession would accept has an active audit session
ValidHasAuditSession ==
    \A token \in DOMAIN sessions :
        ~IsExpired(sessions[token], now) => Hex(token) \in DOMAIN aSessions
\* the step is a DELETE /session that ended the session of its token
DeleteStep ==
    /\ Len(requests') = Len(requests) + 1
    /\ requests'[Len(requests')].route = "delete"
    /\ requests'[Len(requests')].via = "ended"
\* no table of either manager holds the token
HeldByNeither(token) ==
    /\ token \notin DOMAIN sessions'
    /\ \A ip \in DOMAIN sessionsByIp' : token \notin sessionsByIp'[ip]
    /\ Hex(token) \notin DOMAIN aSessions'

\* C31: with audit enabled, a token that validateSession accepts has an
\* active audit session in every reachable state, so a call of a
\* session-requiring capability that passes validation runs through the
\* audited path of callCapability, never the unaudited one; after the
\* session-delete endpoint returns, neither manager holds the token.
C31_SessionsInLockstep ==
    [][ /\ ValidHasAuditSession'
        /\ CapabilityStep /\ requests'[Len(requests')].via = "audit"
              => calls'[requests'[Len(requests')].call].runtime # 0
        /\ DeleteStep => HeldByNeither(requests'[Len(requests')].token) ]_vars

(***************************************************************************)
(* Specifications                                                          *)
(***************************************************************************)
SIdle ==
    /\ ttl = 0 /\ maxSessions = 0 /\ sessions = << >> /\ sessionsByIp = << >>
    /\ nextToken = 1 /\ issuedAt = << >> /\ gone = {}
    /\ sLast = [op |-> "init", token |-> 0, ip |-> NoIp, result |-> "none", at |-> 0]

RIdle == RInit
DIdle == requests = << >>
AIdle ==
    /\ aTtl = 0 /\ aSessions = << >> /\ runtimes = << >> /\ artifacts = << >>
    /\ pendingHandlers = << >> /\ calls = << >>
    /\ aLast = [op |-> "init", token |-> "none", run |-> 0, built |-> TRUE,
                result |-> NoArtifact]

SessionInit == now = 0 /\ SInit /\ RIdle /\ AIdle /\ DIdle
SessionSpec == SessionInit /\ [][SNext]_vars

RateInit == now = 0 /\ SIdle /\ RInit /\ AIdle /\ DIdle
RateSpec == RateInit /\ [][RNext]_vars

AuditInit == now = 0 /\ SIdle /\ RIdle /\ AInit /\ DIdle
AuditSpec == AuditInit /\ [][ANext]_vars

\* audit sessions whose tokens hold ':' characters, with pending calls, ended
\* one by one
UNext ==
    \/ \E token \in PrefixTokens :
          /\ Len(runtimes) < MaxPurgeRuns
          /\ startSession(token, {"search"}) /\ UNCHANGED <<now, svars, rvars, dvars>>
    \/ \E token \in PrefixTokens :
          auditEndSession(token) /\ UNCHANGED <<now, svars, rvars, dvars>>
    \/ \E token \in PrefixTokens :
          /\ Len(calls) < MaxPurgeCalls
          /\ callCapability(token, "search") /\ UNCHANGED <<now, svars, rvars, dvars>>
    \/ \E id \in 1..MaxPurgeCalls, ok \in BOOLEAN :
          directSettle(id, ok) /\ UNCHANGED <<now, svars, rvars, dvars>>
    \/ \E id \in 1..MaxPurgeCalls : executorStart(id) /\ UNCHANGED <<now, svars, rvars, dvars>>
    \/ \E id \in 1..MaxPurgeCalls, resolves \in BOOLEAN :
          executorSettle(id, resolves) /\ UNCHANGED <<now, svars, rvars, dvars>>
    \/ \E id \in 1..MaxPurgeCalls : callCatch(id) /\ UNCHANGED <<now, svars, rvars, dvars>>
PurgeSpec == AuditInit /\ [][UNext]_vars

\* one key whose calls come with different limits
XNext ==
    \/ \E limit \in 1..MaxLimit :
          /\ LogTotal < MaxResetLog
          /\ checkRateLimit("ipA", limit) /\ UNCHANGED <<now, svars, avars, dvars>>
    \/ rateCleanup /\ UNCHANGED <<now, svars, avars, dvars>>
    \/ Tick /\ UNCHANGED <<svars, rvars, avars, dvars>>
ResetSpec == RateInit /\ [][XNext]_vars

\* the sweep timer of the AuditManager fires (audit.ts:64)
SweepStep == cleanupExpired /\ UNCHANGED <<now, svars, rvars, dvars>>
\* time passes
ClockStep == (now < MaxLifeTime /\ Tick) /\ UNCHANGED <<svars, rvars, avars, dvars>>

\* one audit session with one capability and overlapping calls of it
QNext ==
    \/ /\ Len(runtimes) < MaxRuns
       /\ startSession("tokA", {"search"}) /\ UNCHANGED <<now, svars, rvars, dvars>>
    \/ auditEndSession("tokA") /\ UNCHANGED <<now, svars, rvars, dvars>>
    \/ /\ Len(calls) < MaxQueueCalls
       /\ callCapability("tokA", "search") /\ UNCHANGED <<now, svars, rvars, dvars>>
    \/ \E id \in 1..MaxQueueCalls, ok \in BOOLEAN :
          directSettle(id, ok) /\ UNCHANGED <<now, svars, rvars, dvars>>
    \/ \E id \in 1..MaxQueueCalls : executorStart(id) /\ UNCHANGED <<now, svars, rvars, dvars>>
    \/ \E id \in 1..MaxQueueCalls, resolves \in BOOLEAN :
          executorSettle(id, resolves) /\ UNCHANGED <<now, svars, rvars, dvars>>
    \/ \E id \in 1..MaxQueueCalls : callCatch(id) /\ UNCHANGED <<now, svars, rvars, dvars>>
AuditQueueSpec == AuditInit /\ [][QNext]_vars

\* audit sessions that are never ended explicitly: only the sweep seals them.
\* The sweep is a timer (audit.ts:64) that fires as long as the process runs,
\* and time passes.
FNext ==
    \/ \E token \in ATokens :
          /\ Len(runtimes) < MaxLifeRuns
          /\ token \notin DOMAIN aSessions
          /\ startSession(token, {"search"}) /\ UNCHANGED <<now, svars, rvars, dvars>>
    \/ \E token \in ATokens :
          /\ Len(calls) < MaxLifeCalls
          /\ callCapability(token, "search") /\ UNCHANGED <<now, svars, rvars, dvars>>
    \/ \E id \in 1..MaxLifeCalls, ok \in BOOLEAN :
          directSettle(id, ok) /\ UNCHANGED <<now, svars, rvars, dvars>>
    \/ \E id \in 1..MaxLifeCalls : executorStart(id) /\ UNCHANGED <<now, svars, rvars, dvars>>
    \/ \E id \in 1..MaxLifeCalls, resolves \in BOOLEAN :
          executorSettle(id, resolves) /\ UNCHANGED <<now, svars, rvars, dvars>>
    \/ \E id \in 1..MaxLifeCalls : callCatch(id) /\ UNCHANGED <<now, svars, rvars, dvars>>
    \/ SweepStep
    \/ ClockStep
SweepLifeSpec ==
    AuditInit /\ [][FNext]_vars /\ WF_vars(SweepStep) /\ WF_vars(ClockStep)

\* two audit sessions with every capability allowed and calls that overlap
\* across sessions and capabilities
INext ==
    \/ \E token \in ATokens :
          /\ Len(runtimes) < MaxIndepRuns
          /\ token \notin DOMAIN aSessions
          /\ startSession(token, Caps) /\ UNCHANGED <<now, svars, rvars, dvars>>
    \/ \E token \in ATokens, tool \in Caps :
          /\ Len(calls) < MaxIndepCalls
          /\ token \in DOMAIN aSessions
          /\ callCapability(token, tool) /\ UNCHANGED <<now, svars, rvars, dvars>>
    \/ \E id \in 1..MaxIndepCalls : executorStart(id) /\ UNCHANGED <<now, svars, rvars, dvars>>
    \/ \E id \in 1..MaxIndepCalls, resolves \in BOOLEAN :
          executorSettle(id, resolves) /\ UNCHANGED <<now, svars, rvars, dvars>>
    \/ \E id \in 1..MaxIndepCalls : callCatch(id) /\ UNCHANGED <<now, svars, rvars, dvars>>
IndepSpec == AuditInit /\ [][INext]_vars

\* the life of artifacts: tokens that are used again, sealing by endSession,
\* by startSession and by the sweep, and eviction
LNext ==
    \/ \E token \in ATokens :
          /\ Len(runtimes) < MaxLifeRuns
          /\ startSession(token, {"search"}) /\ UNCHANGED <<now, svars, rvars, dvars>>
    \/ \E token \in ATokens : auditEndSession(token) /\ UNCHANGED <<now, svars, rvars, dvars>>
    \/ \E token \in ATokens :
          /\ Len(calls) < MaxLifeCalls
          /\ callCapability(token, "search") /\ UNCHANGED <<now, svars, rvars, dvars>>
    \/ \E id \in 1..MaxLifeCalls, ok \in BOOLEAN :
          directSettle(id, ok) /\ UNCHANGED <<now, svars, rvars, dvars>>
    \/ \E id \in 1..MaxLifeCalls : executorStart(id) /\ UNCHANGED <<now, svars, rvars, dvars>>
    \/ \E id \in 1..MaxLifeCalls, resolves \in BOOLEAN :
          executorSettle(id, resolves) /\ UNCHANGED <<now, svars, rvars, dvars>>
    \/ \E id \in 1..MaxLifeCalls : callCatch(id) /\ UNCHANGED <<now, svars, rvars, dvars>>
    \/ cleanupExpired /\ UNCHANGED <<now, svars, rvars, dvars>>
    \/ (now < MaxLifeTime /\ Tick) /\ UNCHANGED <<svars, rvars, avars, dvars>>
AuditLifeSpec == AuditInit /\ [][LNext]_vars

DispatchInit == now = 0 /\ DInit
DispatchSpec == DispatchInit /\ [][DNext]_vars
ReportSpec == DispatchInit /\ [][PNext]_vars
LockstepSpec == DispatchInit /\ [][KNext]_vars

Init == now = 0 /\ SInit /\ RInit /\ AInit /\ DIdle
Next == SNext \/ RNext \/ ANext
Spec == Init /\ [][Next]_vars
====
